---- MODULE Spec2Model ----
(***************************************************************************)
(* Model of the loyalty-points calculator (src/app.py): one run of the     *)
(* script from the uploaded tables to the bonus allocation.                *)
(*                                                                         *)
(* Numbers.  Timestamps are seconds since 2022-01-01 00:00:00 (all dates   *)
(* of the model are in 2022).  Points are integers in units of 1/PointScale*)
(* point, so a multiplier of 0.01 is 10 and a cap of 1 point is 1000.      *)
(* Currency amounts produced by the allocation are exact fractions         *)
(* [n, d]; d = 0 encodes the non-finite floats: [1,0] = inf, [-1,0] = -inf *)
(* and [0,0] = nan.                                                        *)
(***************************************************************************)
EXTENDS Integers, Sequences, FiniteSets, TLC

VARIABLES files, cfg, pc, log, deposit, withdrawal, gameplays,
          all_users, results, monthly_rankings, metrics, top_50, fault

vars == <<files, cfg, pc, log, deposit, withdrawal, gameplays,
          all_users, results, monthly_rankings, metrics, top_50, fault>>

(***************************************************************************)
(* Bounds of the explored inputs.                                          *)
(***************************************************************************)
\* rows uploaded in total over the three tables (small inputs)
MaxRows == 2
\* user ids 1..MaxUser appear in the small inputs
MaxUser == 2
\* the large inputs have 0..MaxLargeUsers users, one deposit and one session each
MaxLargeUsers == 51

(***************************************************************************)
(* Program constants.                                                      *)
(***************************************************************************)
PointScale == 1000
SecondsPerDay == 86400
TopK == 50
NaT == -1
\* the NULL key of an unused slot of a set's hash table
NullKey == -1
\* PySet_MINSIZE, LINEAR_PROBES and PERTURB_SHIFT of CPython's set
SetMinSize == 8
LinearProbes == 9
PerturbShift == 5

\* a table is None or a DataFrame with columns and rows
None == [isNone |-> TRUE, columns |-> {}, rows |-> <<>>]

Frame(columns, rows) == [isNone |-> FALSE, columns |-> columns, rows |-> rows]

(***************************************************************************)
(* Float arithmetic on exact fractions.                                    *)
(***************************************************************************)
Abs(x) == IF x < 0 THEN -x ELSE x
Sign(x) == IF x > 0 THEN 1 ELSE IF x < 0 THEN -1 ELSE 0
Min(a, b) == IF a <= b THEN a ELSE b
Max(a, b) == IF a >= b THEN a ELSE b

RECURSIVE GCD(_, _)
GCD(a, b) == IF b = 0 THEN a ELSE GCD(b, a % b)

\* the float a / b for integers a, b (numpy semantics on division by zero)
Frac(a, b) ==
    IF b = 0 THEN [n |-> Sign(a), d |-> 0]
    ELSE LET g == GCD(Abs(a), Abs(b))
         IN  [n |-> Sign(b) * (a \div g), d |-> Abs(b) \div g]

IsFinite(x) == x.d # 0
FNaN == [n |-> 0, d |-> 0]

FAdd(x, y) ==
    IF IsFinite(x) /\ IsFinite(y)
    THEN LET g == GCD(x.d, y.d)
         IN  Frac(x.n * (y.d \div g) + y.n * (x.d \div g), (x.d \div g) * y.d)
    ELSE IF ~IsFinite(x) /\ ~IsFinite(y)
         THEN (IF x.n = y.n THEN x ELSE FNaN)
         ELSE IF IsFinite(x) THEN y ELSE x

\* x * k for an integer k
FMulInt(x, k) ==
    IF IsFinite(x)
    THEN LET g == GCD(Abs(k), x.d)
         IN  Frac(x.n * (k \div g), x.d \div g)
    ELSE [n |-> x.n * Sign(k), d |-> 0]

\* x / k for an integer k
FDivInt(x, k) ==
    IF ~IsFinite(x) THEN [n |-> x.n * (IF k < 0 THEN -1 ELSE 1), d |-> 0]
    ELSE IF k = 0 THEN [n |-> Sign(x.n), d |-> 0]
    ELSE LET g == GCD(Abs(x.n), Abs(k))
         IN  Frac(x.n \div g, x.d * (k \div g))

\* Series.sum of a column of integers, added pairwise over halves
RECURSIVE SumRange(_, _, _)
SumRange(s, lo, hi) ==
    IF lo > hi THEN 0
    ELSE IF lo = hi THEN s[lo]
    ELSE LET mid == (lo + hi) \div 2
         IN  SumRange(s, lo, mid) + SumRange(s, mid + 1, hi)

Sum(s) == SumRange(s, 1, Len(s))

Column(df, col) == [i \in 1..Len(df) |-> df[i][col]]

(***************************************************************************)
(* Dates.                                                                  *)
(***************************************************************************)
DaysInMonth == <<31, 28, 31, 30, 31, 30, 31, 31, 30, 31, 30, 31>>

RECURSIVE DaysBefore(_)
DaysBefore(m) == IF m = 1 THEN 0 ELSE DaysBefore(m - 1) + DaysInMonth[m - 1]

\* datetime(2022, month, day, hour, minute, second)
datetime(month, day, hour, minute, second) ==
    (DaysBefore(month) + day - 1) * SecondsPerDay + hour * 3600 + minute * 60 + second

\* pd.to_datetime(text, format='%d-%m-%Y %H:%M', errors='coerce') of the
\* text "dd-mm-2022 HH:MM", given as <<dd, mm, HH, MM>>
to_datetime(text) ==
    IF /\ text[2] \in 1..12
       /\ text[1] \in 1..DaysInMonth[text[2]]
       /\ text[3] \in 0..23
       /\ text[4] \in 0..59
    THEN datetime(text[2], text[1], text[3], text[4], 0)
    ELSE NaT

start_date(month) ==
    IF month = "October 2022" THEN datetime(10, 1, 0, 0, 0)
    ELSE IF month = "November 2022" THEN datetime(11, 1, 0, 0, 0)
    ELSE datetime(12, 1, 0, 0, 0)

end_date(month) ==
    IF month = "October 2022" THEN datetime(10, 31, 23, 59, 59)
    ELSE IF month = "November 2022" THEN datetime(11, 30, 23, 59, 59)
    ELSE datetime(12, 31, 23, 59, 59)

\* Series.dt.normalize(): the calendar day of a timestamp
normalize(dt) == dt \div SecondsPerDay

(***************************************************************************)
(* Inputs: parameter configurations (sidebar widgets) and uploaded tables. *)
(***************************************************************************)
DefaultConfig ==
    [deposit_multiplier |-> 10, withdrawal_multiplier |-> 5,
     frequency_multiplier |-> 1, gameplay_multiplier |-> 200,
     daily_bonus |-> 0, deposit_cap |-> 0, bonus_pool |-> 1000,
     month_to_analyze |-> "October 2022"]

\* withdrawals are penalised (slider minimum -0.01), no frequency points
PenaltyConfig ==
    [deposit_multiplier |-> 10, withdrawal_multiplier |-> -10,
     frequency_multiplier |-> 0, gameplay_multiplier |-> 200,
     daily_bonus |-> 0, deposit_cap |-> 0, bonus_pool |-> 2000,
     month_to_analyze |-> "October 2022"]

\* deposit points capped at 1 point, 1 point per distinct day, November
CappedConfig ==
    [deposit_multiplier |-> 10, withdrawal_multiplier |-> 5,
     frequency_multiplier |-> 1, gameplay_multiplier |-> 200,
     daily_bonus |-> 1, deposit_cap |-> 1, bonus_pool |-> 1000,
     month_to_analyze |-> "November 2022"]

Configs == {DefaultConfig, PenaltyConfig, CappedConfig}

\* "Datetime" texts <<dd, mm, HH, MM>> of year 2022; the last one is not a date
RawTimes == << <<30, 9, 23, 59>>, <<1, 10, 0, 0>>, <<1, 10, 18, 30>>,
               <<31, 10, 23, 59>>, <<1, 11, 0, 0>>, <<31, 11, 10, 0>> >>

\* the measure of every uploaded row, per kind of table
RowValues == [Amount |-> 100, GamesPlayed |-> 5]
DepositAmount == RowValues.Amount
WithdrawalAmount == RowValues.Amount
SessionGames == RowValues.GamesPlayed

AllColumns(measure) == {"User Id", measure, "Datetime"}

\* an uploaded row: kind 1 = deposit, 2 = withdrawal, 3 = gameplay
Uploads == [kind : 1..3, user : 1..MaxUser, time : 1..Len(RawTimes)]
UploadKey(u) == u.kind * 1000 + u.user * 10 + u.time

SmallInputs ==
    UNION { { ups \in [1..n -> Uploads] :
                \A i \in 1..(n - 1) : UploadKey(ups[i]) <= UploadKey(ups[i + 1]) }
            : n \in 0..MaxRows }

\* the user id of the u-th user of the small inputs: 1, 8, 3, 16, ...
SmallUserId(u) == IF u % 2 = 0 THEN 8 * (u \div 2) ELSE u

AmountRows(ups, kind, amount) ==
    LET sel == SelectSeq(ups, LAMBDA u : u.kind = kind)
    IN  [i \in 1..Len(sel) |->
            [UserId |-> SmallUserId(sel[i].user), Amount |-> amount, Datetime |-> RawTimes[sel[i].time]]]

GameRows(ups) ==
    LET sel == SelectSeq(ups, LAMBDA u : u.kind = 3)
    IN  [i \in 1..Len(sel) |->
            [UserId |-> SmallUserId(sel[i].user), GamesPlayed |-> SessionGames,
             Datetime |-> RawTimes[sel[i].time]]]

\* an uploaded CSV file: pd.read_csv either yields its columns and rows or raises
CsvFile(columns, rows) == [readable |-> TRUE, columns |-> columns, rows |-> rows]
BrokenFile == [readable |-> FALSE, columns |-> {}, rows |-> <<>>]

SmallFiles(ups) ==
    [Deposit    |-> CsvFile(AllColumns("Amount"), AmountRows(ups, 1, DepositAmount)),
     Withdrawal |-> CsvFile(AllColumns("Amount"), AmountRows(ups, 2, WithdrawalAmount)),
     Gameplay   |-> CsvFile(AllColumns("Games Played"), GameRows(ups))]

FileKinds == {"ok", "no_datetime", "unreadable"}

\* n users; user i has one deposit and one session on 1 October, 18:30.
\* A file is complete ("ok"), lacks the Datetime column and has the other
\* two columns only ("no_datetime"), or cannot be read ("unreadable").
LargeFiles(n, kindD, kindW, kindG) ==
    [Deposit    |-> IF kindD = "ok"
                    THEN CsvFile(AllColumns("Amount"),
                                 [i \in 1..n |-> [UserId |-> i, Amount |-> DepositAmount,
                                                  Datetime |-> RawTimes[3]]])
                    ELSE IF kindD = "no_datetime"
                    THEN CsvFile({"User Id", "Amount"},
                                 [i \in 1..n |-> [UserId |-> i, Amount |-> DepositAmount]])
                    ELSE BrokenFile,
     Withdrawal |-> IF kindW = "ok" THEN CsvFile(AllColumns("Amount"), <<>>)
                    ELSE IF kindW = "no_datetime" THEN CsvFile({"User Id", "Amount"}, <<>>)
                    ELSE BrokenFile,
     Gameplay   |-> IF kindG = "ok"
                    THEN CsvFile(AllColumns("Games Played"),
                                 [i \in 1..n |-> [UserId |-> i, GamesPlayed |-> SessionGames,
                                                  Datetime |-> RawTimes[3]]])
                    ELSE IF kindG = "no_datetime"
                    THEN CsvFile({"User Id", "Games Played"},
                                 [i \in 1..n |-> [UserId |-> i, GamesPlayed |-> SessionGames]])
                    ELSE BrokenFile]

InitRest ==
    /\ cfg \in Configs
    /\ pc = "process_deposit"
    /\ log = <<>>
    /\ deposit = None
    /\ withdrawal = None
    /\ gameplays = None
    /\ all_users = <<>>
    /\ results = <<>>
    /\ monthly_rankings = <<>>
    /\ metrics = <<>>
    /\ top_50 = <<>>
    /\ fault = "none"

InitSmall ==
    /\ \E ups \in SmallInputs : files = SmallFiles(ups)
    /\ InitRest

InitLarge ==
    /\ \E n \in 0..MaxLargeUsers, kindD \in FileKinds, kindW \in FileKinds,
          kindG \in FileKinds :
          files = LargeFiles(n, kindD, kindW, kindG)
    /\ InitRest

Init == InitSmall \/ InitLarge

(***************************************************************************)
(* Record validation and normalisation.                                    *)
(***************************************************************************)
Message(level, text, name, removed) ==
    [level |-> level, text |-> text, name |-> name, removed |-> removed]

\* load_data(file): the table read from the file, or None and an error
\* message when pd.read_csv raises
load_data(file) ==
    IF file.readable
    THEN [df |-> Frame(file.columns, file.rows), msgs |-> <<>>]
    ELSE [df |-> None,
          msgs |-> << Message("error", "Error loading file", "", 0) >>]

\* process_data(df, name): the processed table (or None) and the messages shown
process_data(df, name) ==
    IF df.isNone
    THEN [df |-> None, msgs |-> <<>>]
    ELSE IF "Datetime" \notin df.columns
    THEN [df |-> None,
          msgs |-> << Message("error", "must contain a 'Datetime' column", name, 0) >>]
    ELSE LET parsed == [i \in 1..Len(df.rows) |->
                          [df.rows[i] EXCEPT !.Datetime = to_datetime(@)]]
             valid == SelectSeq(parsed, LAMBDA r : r.Datetime # NaT)
             invalid_dates == Len(parsed) - Len(valid)
         IN  IF invalid_dates > 0
             THEN [df |-> Frame(df.columns, valid),
                   msgs |-> << Message("warning", "Removed rows with invalid dates",
                                       name, invalid_dates) >>]
             ELSE [df |-> Frame(df.columns, parsed), msgs |-> <<>>]

\* process_data(load_data(file), name)
LoadAndProcess(file, name) ==
    LET loaded == load_data(file)
        processed == process_data(loaded.df, name)
    IN  [df |-> processed.df, msgs |-> loaded.msgs \o processed.msgs]

ProcessDeposit ==
    /\ pc = "process_deposit"
    /\ LET r == LoadAndProcess(files.Deposit, "Deposit")
       IN  /\ deposit' = r.df
           /\ log' = log \o r.msgs
    /\ pc' = "process_withdrawal"
    /\ UNCHANGED <<files, cfg, withdrawal, gameplays, all_users, results,
                   monthly_rankings, metrics, top_50, fault>>

ProcessWithdrawal ==
    /\ pc = "process_withdrawal"
    /\ LET r == LoadAndProcess(files.Withdrawal, "Withdrawal")
       IN  /\ withdrawal' = r.df
           /\ log' = log \o r.msgs
    /\ pc' = "process_gameplay"
    /\ UNCHANGED <<files, cfg, deposit, gameplays, all_users, results,
                   monthly_rankings, metrics, top_50, fault>>

ProcessGameplay ==
    /\ pc = "process_gameplay"
    /\ LET r == LoadAndProcess(files.Gameplay, "Gameplay")
       IN  /\ gameplays' = r.df
           /\ log' = log \o r.msgs
    /\ pc' = "loaded"
    /\ UNCHANGED <<files, cfg, deposit, withdrawal, all_users, results,
                   monthly_rankings, metrics, top_50, fault>>

\* variant: one loaded table is enough
AllLoaded_Any(d, w, g) == ~d.isNone \/ ~w.isNone \/ ~g.isNone

\* deposit is not None and withdrawal is not None and gameplays is not None
AllLoaded(d, w, g) == ~d.isNone /\ ~w.isNone /\ ~g.isNone

(***************************************************************************)
(* CPython's set of integers (Objects/setobject.c, 3.7 and later): an open *)
(* addressing hash table [mask, fill, table]; hash(k) = k for the          *)
(* non-negative user ids, nothing is ever deleted, so fill = used.         *)
(***************************************************************************)
EmptySet ==
    [mask |-> SetMinSize - 1, fill |-> 0,
     table |-> [i \in 0..(SetMinSize - 1) |-> NullKey]]

\* the probe sequence of key from slot i + j: the first unused slot, or
\* NullKey when the key is already in the table
RECURSIVE set_lookup(_, _, _, _, _, _)
set_lookup(table, mask, key, i, perturb, j) ==
    IF table[i + j] = NullKey THEN i + j
    ELSE IF table[i + j] = key THEN NullKey
    ELSE IF j < (IF i + LinearProbes <= mask THEN LinearProbes ELSE 0)
    THEN set_lookup(table, mask, key, i, perturb, j + 1)
    ELSE LET shifted == perturb \div (2 ^ PerturbShift)
         IN  set_lookup(table, mask, key, (i * 5 + 1 + shifted) % (mask + 1), shifted, 0)

set_slot(so, key) == set_lookup(so.table, so.mask, key, key % (so.mask + 1), key, 0)

\* set_insert_clean: store a key known to be absent, fill unchanged
set_insert_clean(so, key) == [so EXCEPT !.table[set_slot(so, key)] = key]

RECURSIVE TableSize(_, _)
TableSize(size, minused) ==
    IF size <= minused THEN TableSize(2 * size, minused) ELSE size

\* the keys of slots lo..hi of an old table, reinserted in slot order
RECURSIVE ReinsertSlots(_, _, _, _)
ReinsertSlots(old, lo, hi, so) ==
    IF lo = hi
    THEN (IF old[lo] = NullKey THEN so ELSE set_insert_clean(so, old[lo]))
    ELSE LET mid == (lo + hi) \div 2
         IN  CHOOSE result \in { ReinsertSlots(old, mid + 1, hi, half) :
                                  half \in { ReinsertSlots(old, lo, mid, so) } } : TRUE

set_table_resize(so, minused) ==
    LET size == TableSize(SetMinSize, minused)
    IN  ReinsertSlots(so.table, 0, so.mask,
                      [mask |-> size - 1, fill |-> so.fill,
                       table |-> [i \in 0..(size - 1) |-> NullKey]])

set_add_entry(so, key) ==
    LET slot == set_slot(so, key)
        added == [so EXCEPT !.table[slot] = key, !.fill = @ + 1]
    IN  IF slot = NullKey THEN so
        ELSE IF added.fill * 5 < added.mask * 3 THEN added
        ELSE set_table_resize(added, IF added.fill > 50000 THEN added.fill * 2
                                     ELSE added.fill * 4)

\* set(iterable): the keys keys[lo..hi] added in order
RECURSIVE AddKeys(_, _, _, _)
AddKeys(keys, lo, hi, so) ==
    IF lo > hi THEN so
    ELSE IF lo = hi THEN set_add_entry(so, keys[lo])
    ELSE LET mid == (lo + hi) \div 2
         IN  CHOOSE result \in { AddKeys(keys, mid + 1, hi, half) :
                                  half \in { AddKeys(keys, lo, mid, so) } } : TRUE

set_new(keys) == AddKeys(keys, 1, Len(keys), EmptySet)

\* the keys of slots lo..hi of another set's table, added in slot order
RECURSIVE AddSlots(_, _, _, _)
AddSlots(other, lo, hi, so) ==
    IF lo = hi
    THEN (IF other[lo] = NullKey THEN so ELSE set_add_entry(so, other[lo]))
    ELSE LET mid == (lo + hi) \div 2
         IN  CHOOSE result \in { AddSlots(other, mid + 1, hi, half) :
                                  half \in { AddSlots(other, lo, mid, so) } } : TRUE

set_merge(so, other) ==
    IF other.fill = 0 THEN so
    ELSE LET grown == IF (so.fill + other.fill) * 5 >= so.mask * 3
                      THEN set_table_resize(so, (so.fill + other.fill) * 2)
                      ELSE so
         IN  IF grown.fill = 0 /\ grown.mask = other.mask THEN other
             ELSE IF grown.fill = 0
             THEN [ReinsertSlots(other.table, 0, other.mask, grown)
                      EXCEPT !.fill = other.fill]
             ELSE AddSlots(other.table, 0, other.mask, grown)

set_copy(so) == set_merge(EmptySet, so)

\* so.union(other)
set_union(so, other) == set_merge(set_copy(so), other)

\* list(so): the keys in slot order
set_list(so) ==
    SelectSeq([i \in 1..(so.mask + 1) |-> so.table[i - 1]], LAMBDA k : k # NullKey)

\* set(df['User Id'])
UserIdSet(df) == set_new(Column(df.rows, "UserId"))

\* variant: the gameplay table is left out of the union
AllUsers_NoGameplay(d, w, g) == set_list(set_union(UserIdSet(d), UserIdSet(w)))

\* list(set(deposit ids).union(set(withdrawal ids)).union(set(gameplay ids)))
AllUsers(d, w, g) ==
    set_list(set_union(set_union(UserIdSet(d), UserIdSet(w)), UserIdSet(g)))

CollectUsers ==
    /\ pc = "loaded"
    /\ AllLoaded(deposit, withdrawal, gameplays)
    /\ all_users' = AllUsers(deposit, withdrawal, gameplays)
    /\ pc' = "score"
    /\ UNCHANGED <<files, cfg, log, deposit, withdrawal, gameplays, results,
                   monthly_rankings, metrics, top_50, fault>>

\* a table is None: the body of the if at line 306 is skipped
Stop ==
    /\ pc = "loaded"
    /\ ~AllLoaded(deposit, withdrawal, gameplays)
    /\ pc' = "stopped"
    /\ UNCHANGED <<files, cfg, log, deposit, withdrawal, gameplays, all_users,
                   results, monthly_rankings, metrics, top_50, fault>>

(***************************************************************************)
(* Activity aggregation and scoring.                                       *)
(***************************************************************************)
\* variant: the window start is excluded
InDateRange_Exclusive(dt, start, end) == dt > start /\ dt <= end

\* (df['Datetime'] >= start_date) & (df['Datetime'] <= end_date)
InDateRange(dt, start, end) == dt >= start /\ dt <= end

\* df[(df['User Id'] == user) & (df['Datetime'] >= start) & (df['Datetime'] <= end)]
UserActivity(df, user, start, end) ==
    SelectSeq(df.rows, LAMBDA r : r.UserId = user /\ InDateRange(r.Datetime, start, end))

\* variant: the clamp is applied whatever the cap
DepositPoints_AlwaysClamped(multiplier, cap, deposit_amt) ==
    Min(multiplier * deposit_amt, cap * PointScale)

\* deposit_multiplier * deposit_amt, clamped when deposit_cap > 0
DepositPoints(multiplier, cap, deposit_amt) ==
    IF cap > 0
    THEN Min(multiplier * deposit_amt, cap * PointScale)
    ELSE multiplier * deposit_amt

calculate_loyalty_points(user, start, end) ==
    LET user_deposits == UserActivity(deposit, user, start, end)
        user_withdrawals == UserActivity(withdrawal, user, start, end)
        user_games == UserActivity(gameplays, user, start, end)
        deposit_amt == Sum(Column(user_deposits, "Amount"))
        withdrawal_amt == Sum(Column(user_withdrawals, "Amount"))
        num_deposits == Len(user_deposits)
        num_withdrawals == Len(user_withdrawals)
        games_played == Sum(Column(user_games, "GamesPlayed"))
        distinct_days ==
            Cardinality({ normalize(user_games[i].Datetime) : i \in 1..Len(user_games) })
        deposit_points ==
            DepositPoints(cfg.deposit_multiplier, cfg.deposit_cap, deposit_amt)
        withdrawal_points == cfg.withdrawal_multiplier * withdrawal_amt
        frequency_points ==
            cfg.frequency_multiplier * Max(num_deposits - num_withdrawals, 0)
        game_points == cfg.gameplay_multiplier * games_played
        daily_bonus_points == cfg.daily_bonus * PointScale * distinct_days
    IN  [UserId |-> user,
         TotalPoints |-> deposit_points + withdrawal_points + frequency_points
                         + game_points + daily_bonus_points,
         FromDeposits |-> deposit_points,
         FromWithdrawals |-> withdrawal_points,
         FromFrequency |-> frequency_points,
         FromGames |-> game_points,
         FromDailyBonus |-> daily_bonus_points,
         TotalDeposits |-> deposit_amt,
         TotalWithdrawals |-> withdrawal_amt,
         GamesPlayed |-> games_played,
         NumDeposits |-> num_deposits,
         NumWithdrawals |-> num_withdrawals,
         DistinctDays |-> distinct_days]

\* one iteration of the loop over all_users
ScoreUser ==
    /\ pc = "score"
    /\ Len(results) < Len(all_users)
    /\ results' = Append(results,
                         calculate_loyalty_points(all_users[Len(results) + 1],
                                                  start_date(cfg.month_to_analyze),
                                                  end_date(cfg.month_to_analyze)))
    /\ UNCHANGED <<files, cfg, pc, log, deposit, withdrawal, gameplays, all_users,
                   monthly_rankings, metrics, top_50, fault>>

(***************************************************************************)
(* Ranking.                                                                *)
(***************************************************************************)
\* variant: the sort ignores the second key
SortsBefore_PointsOnly(a, b) == a.TotalPoints > b.TotalPoints

\* a sorts strictly before b: ['Total Points', 'Games Played'], both descending
SortsBefore(a, b) ==
    \/ a.TotalPoints > b.TotalPoints
    \/ a.TotalPoints = b.TotalPoints /\ a.GamesPlayed > b.GamesPlayed

\* DataFrame.sort_values on two keys is stable: row i lands after the rows
\* that sort strictly before it and after the earlier rows with equal keys
SortedPosition(df, i) ==
    1 + Cardinality({ j \in 1..Len(df) :
                        \/ SortsBefore(df[j], df[i])
                        \/ j < i /\ ~SortsBefore(df[i], df[j]) })

sort_values(df) ==
    [p \in 1..Len(df) |-> df[CHOOSE i \in 1..Len(df) : SortedPosition(df, i) = p]]

WithColumn(row, col, value) == [c \in DOMAIN row \cup {col} |-> IF c = col THEN value ELSE row[c]]

\* sort and number the rows 1..len
RankRows(points_df) ==
    LET sorted == sort_values(points_df)
    IN  [i \in 1..Len(sorted) |-> WithColumn(sorted[i], "Rank", i)]

Rank ==
    /\ pc = "score"
    /\ Len(results) = Len(all_users)
    /\ results # <<>>
    /\ monthly_rankings' = RankRows(results)
    /\ pc' = "metrics"
    /\ UNCHANGED <<files, cfg, log, deposit, withdrawal, gameplays, all_users,
                   results, metrics, top_50, fault>>

\* pd.DataFrame([]) has no columns: sort_values raises KeyError('Total Points'),
\* which nothing catches
RankKeyError ==
    /\ pc = "score"
    /\ Len(results) = Len(all_users)
    /\ results = <<>>
    /\ fault' = "KeyError"
    /\ pc' = "fault"
    /\ UNCHANGED <<files, cfg, log, deposit, withdrawal, gameplays, all_users,
                   results, monthly_rankings, metrics, top_50>>

\* Total Players, Average Points, Top Player Points
KeyMetrics ==
    /\ pc = "metrics"
    /\ metrics' = << [total_players |-> Len(monthly_rankings),
                      average_points |-> Frac(Sum(Column(monthly_rankings, "TotalPoints")),
                                              Len(monthly_rankings)),
                      top_player_points |-> monthly_rankings[1].TotalPoints] >>
    /\ pc' = "allocate"
    /\ UNCHANGED <<files, cfg, log, deposit, withdrawal, gameplays, all_users,
                   results, monthly_rankings, top_50, fault>>

(***************************************************************************)
(* Bonus allocation.                                                       *)
(***************************************************************************)
\* monthly_rankings.head(n)
head(df, n) == SubSeq(df, 1, Min(n, Len(df)))

\* (points / points.sum()) * bonus_pool
Proportional(points, points_sum, bonus_pool) ==
    FMulInt(Frac(points, points_sum), bonus_pool)

\* the amount of a rank band
Tiered(rank, bonus_pool) ==
    IF rank <= 10 THEN FDivInt(FMulInt(Frac(3, 10), bonus_pool), 10)
    ELSE IF rank <= 30 THEN FDivInt(FMulInt(Frac(4, 10), bonus_pool), 20)
    ELSE FDivInt(FMulInt(Frac(3, 10), bonus_pool), 20)

\* (0.5 * points / points.sum() + 0.3 * games / games.sum()
\*  + 0.2 * deposits / deposits.sum()) * bonus_pool
Hybrid(row, points_sum, games_sum, deposits_sum, bonus_pool) ==
    FMulInt(FAdd(FAdd(FDivInt(FMulInt(Frac(5, 10), row.TotalPoints), points_sum),
                      FDivInt(FMulInt(Frac(3, 10), row.GamesPlayed), games_sum)),
                 FDivInt(FMulInt(Frac(2, 10), row.TotalDeposits), deposits_sum)),
            bonus_pool)

Allocation(rankings, bonus_pool) ==
    LET top == head(rankings, TopK)
        points_sum == Sum(Column(top, "TotalPoints"))
        games_sum == Sum(Column(top, "GamesPlayed"))
        deposits_sum == Sum(Column(top, "TotalDeposits"))
    IN  [i \in 1..Len(top) |->
            [UserId |-> top[i].UserId,
             Rank |-> top[i].Rank,
             TotalPoints |-> top[i].TotalPoints,
             GamesPlayed |-> top[i].GamesPlayed,
             TotalDeposits |-> top[i].TotalDeposits,
             Proportional |-> Proportional(top[i].TotalPoints, points_sum, bonus_pool),
             Tiered |-> Tiered(top[i].Rank, bonus_pool),
             Hybrid |-> Hybrid(top[i], points_sum, games_sum, deposits_sum, bonus_pool)]]

Allocate ==
    /\ pc = "allocate"
    /\ top_50' = Allocation(monthly_rankings, cfg.bonus_pool)
    /\ pc' = "done"
    /\ UNCHANGED <<files, cfg, log, deposit, withdrawal, gameplays, all_users,
                   results, monthly_rankings, metrics, fault>>

Next ==
    \/ ProcessDeposit
    \/ ProcessWithdrawal
    \/ ProcessGameplay
    \/ CollectUsers
    \/ Stop
    \/ ScoreUser
    \/ Rank
    \/ RankKeyError
    \/ KeyMetrics
    \/ Allocate

Spec == Init /\ [][Next]_vars

(***************************************************************************)
(* Properties.                                                             *)
(***************************************************************************)
Ranked == pc \in {"metrics", "allocate", "done"}
FInt(k) == [n |-> k, d |-> 1]
Pool == FInt(cfg.bonus_pool)

\* the total of a column of amounts by float addition: nan and inf - inf
\* make it nan, so a column with an undefined amount never totals the pool
RECURSIVE AmountTotalRange(_, _, _)
AmountTotalRange(s, lo, hi) ==
    IF lo > hi THEN FInt(0)
    ELSE IF lo = hi THEN s[lo]
    ELSE LET mid == (lo + hi) \div 2
         IN  FAdd(AmountTotalRange(s, lo, mid), AmountTotalRange(s, mid + 1, hi))

AmountTotal(s) == AmountTotalRange(s, 1, Len(s))
WindowStart == start_date(cfg.month_to_analyze)
WindowEnd == end_date(cfg.month_to_analyze)

\* the user ids that occur in a table
UserIds(df) == { df.rows[i].UserId : i \in 1..Len(df.rows) }

RECURSIVE SumOver(_, _, _)
SumOver(rows, col, idx) ==
    IF idx = {} THEN 0
    ELSE LET i == CHOOSE x \in idx : TRUE
         IN  rows[i][col] + SumOver(rows, col, idx \ {i})

\* the rows of a table that belong to a user and lie in the window, both
\* bounds included
Qualifying(df, user) ==
    { i \in 1..Len(df.rows) :
        /\ df.rows[i].UserId = user
        /\ WindowStart <= df.rows[i].Datetime
        /\ df.rows[i].Datetime <= WindowEnd }

MissingColumn ==
    { name \in DOMAIN files :
        files[name].readable /\ "Datetime" \notin files[name].columns }

\* C1: every Tiered amount of the top-K subset is 0.3*pool/10 for ranks
\* 1..10, 0.4*pool/20 for ranks 11..30 and 0.3*pool/(K-30) for ranks 31..K.
ClaimC1_TieredBands ==
    pc = "done" =>
        \A i \in 1..Len(top_50) :
            LET K == Len(top_50)
                rank == top_50[i].Rank
            IN  top_50[i].Tiered =
                    IF rank <= 10 THEN Frac(3 * cfg.bonus_pool, 100)
                    ELSE IF rank <= 30 THEN Frac(4 * cfg.bonus_pool, 200)
                    ELSE Frac(3 * cfg.bonus_pool, 10 * (K - 30))

\* C2: the Tiered amounts of the top-K subset sum to the bonus pool,
\* whatever the number of ranked users.
ClaimC2_TieredSum ==
    pc = "done" => AmountTotal(Column(top_50, "Tiered")) = Pool

\* C3: when a user of the top-K subset has nonzero total points, the
\* Proportional amounts sum to the bonus pool.
ClaimC3_ProportionalSum ==
    (pc = "done" /\ \E i \in 1..Len(top_50) : top_50[i].TotalPoints # 0)
        => AmountTotal(Column(top_50, "Proportional")) = Pool

\* C4: in every run the Hybrid amounts of the top-K subset sum to the
\* bonus pool.
ClaimC4_HybridSum ==
    pc = "done" => AmountTotal(Column(top_50, "Hybrid")) = Pool

RankValues == { monthly_rankings[i].Rank : i \in 1..Len(monthly_rankings) }

\* users with a deposit, withdrawal or gameplay row inside the window
ActiveUsers ==
    { u \in UserIds(deposit) \cup UserIds(withdrawal) \cup UserIds(gameplays) :
        Qualifying(deposit, u) \cup Qualifying(withdrawal, u)
            \cup Qualifying(gameplays, u) # {} }

\* C5 as stated: the ranks are exactly 1..N, N the number of users with a
\* qualifying activity row inside the window.
ClaimC5_RanksOfActiveUsers ==
    Ranked => /\ RankValues = 1..Cardinality(ActiveUsers)
              /\ Len(monthly_rankings) = Cardinality(ActiveUsers)

\* C5 amended: the ranks are exactly 1..N without duplicates or gaps, N the
\* number of distinct user ids in the three normalised tables, whether or
\* not their rows lie inside the window.
TheoremC5_RanksOfAllUsers ==
    Ranked =>
        LET N == Cardinality(UserIds(deposit) \cup UserIds(withdrawal)
                             \cup UserIds(gameplays))
        IN  /\ RankValues = 1..N
            /\ Len(monthly_rankings) = N
            /\ { monthly_rankings[i].UserId : i \in 1..N } =
                   UserIds(deposit) \cup UserIds(withdrawal) \cup UserIds(gameplays)

WitnessC5 ==
    /\ pc = "done"
    /\ Cardinality(ActiveUsers) < Len(monthly_rankings)
    /\ Len(monthly_rankings) >= 2

LexGreater(a, b) ==
    \/ a.TotalPoints > b.TotalPoints
    \/ a.TotalPoints = b.TotalPoints /\ a.GamesPlayed > b.GamesPlayed

\* C6 as stated: rank_i < rank_j exactly when (points_i, games_i) is
\* lexicographically strictly greater than (points_j, games_j).
ClaimC6_RankIffGreater ==
    Ranked =>
        \A i, j \in 1..Len(monthly_rankings) :
            i # j => (monthly_rankings[i].Rank < monthly_rankings[j].Rank
                        <=> LexGreater(monthly_rankings[i], monthly_rankings[j]))

\* C6 amended: a user with a strictly greater (points, games) pair has the
\* smaller rank, and a smaller rank implies a pair that is greater or
\* equal; users with equal pairs still get distinct ranks.
TheoremC6_RankOrder ==
    Ranked =>
        \A i, j \in 1..Len(monthly_rankings) :
            i # j =>
                /\ monthly_rankings[i].Rank # monthly_rankings[j].Rank
                /\ LexGreater(monthly_rankings[i], monthly_rankings[j])
                       => monthly_rankings[i].Rank < monthly_rankings[j].Rank
                /\ monthly_rankings[i].Rank < monthly_rankings[j].Rank
                       => ~LexGreater(monthly_rankings[j], monthly_rankings[i])

\* the games tie-break puts a user scored later before a user scored
\* earlier with the same points
WitnessC6 ==
    /\ Ranked
    /\ \E a, b \in 1..Len(results) :
          /\ a < b
          /\ results[a].TotalPoints = results[b].TotalPoints
          /\ results[a].GamesPlayed < results[b].GamesPlayed
          /\ \E i, j \in 1..Len(monthly_rankings) :
                /\ monthly_rankings[i].UserId = results[b].UserId
                /\ monthly_rankings[j].UserId = results[a].UserId
                /\ monthly_rankings[i].Rank < monthly_rankings[j].Rank

Reported(name) ==
    \E k \in 1..Len(log) :
        /\ log[k].level = "error"
        /\ log[k].text = "must contain a 'Datetime' column"
        /\ log[k].name = name

\* C7: when a table lacks the Datetime column the error is reported and
\* the run stops: no user is collected or scored, nothing is ranked, no
\* metric and no bonus is computed.
TheoremC7_MissingColumnStops ==
    MissingColumn # {} =>
        /\ pc \in {"process_deposit", "process_withdrawal", "process_gameplay",
                   "loaded", "stopped"}
        /\ all_users = <<>> /\ results = <<>> /\ monthly_rankings = <<>>
        /\ metrics = <<>> /\ top_50 = <<>>
        /\ pc \in {"loaded", "stopped"} => \A name \in MissingColumn : Reported(name)

WitnessC7 ==
    /\ pc = "stopped"
    /\ MissingColumn # {}
    /\ MissingColumn # DOMAIN files
    /\ \A name \in MissingColumn : Reported(name)
    /\ \E name \in DOMAIN files \ MissingColumn : files[name].rows # <<>>

\* C8: a run whose three normalised tables hold no user ends in a reported
\* EmptyInputError, not in an unhandled fault and not in an empty report.
ClaimC8_EmptyInputReported ==
    (/\ pc \in {"done", "fault"}
     /\ UserIds(deposit) \cup UserIds(withdrawal) \cup UserIds(gameplays) = {})
        => /\ fault = "none"
           /\ \E k \in 1..Len(log) : log[k].level = "error"

\* C9: the aggregates of every scored user are those of exactly the rows
\* with the user's id and start <= timestamp <= end.
TheoremC9_WindowFilter ==
    \A k \in 1..Len(results) :
        LET r == results[k]
            dep == Qualifying(deposit, r.UserId)
            wd == Qualifying(withdrawal, r.UserId)
            gp == Qualifying(gameplays, r.UserId)
        IN  /\ r.UserId = all_users[k]
            /\ r.TotalDeposits = SumOver(deposit.rows, "Amount", dep)
            /\ r.NumDeposits = Cardinality(dep)
            /\ r.TotalWithdrawals = SumOver(withdrawal.rows, "Amount", wd)
            /\ r.NumWithdrawals = Cardinality(wd)
            /\ r.GamesPlayed = SumOver(gameplays.rows, "GamesPlayed", gp)
            /\ r.DistinctDays =
                   Cardinality({ gameplays.rows[i].Datetime \div 86400 : i \in gp })

\* a scored user with a counted row exactly at the window start and a row
\* left out, next to another user's counted row
WitnessC9 ==
    \E k \in 1..Len(results) :
        \E i, j \in 1..Len(gameplays.rows) :
            /\ gameplays.rows[i].UserId = results[k].UserId
            /\ gameplays.rows[i].Datetime = WindowStart
            /\ gameplays.rows[j].Datetime \in WindowStart..WindowEnd
            /\ gameplays.rows[j].UserId # results[k].UserId
            /\ results[k].GamesPlayed = gameplays.rows[i].GamesPlayed
            /\ results[k].DistinctDays = 1

\* C10: with a positive cap the deposit points are min(multiplier * total
\* deposits, cap), hence at most the cap; with cap 0 they are multiplier *
\* total deposits.
TheoremC10_DepositCap ==
    \A k \in 1..Len(results) :
        LET r == results[k]
            uncapped == cfg.deposit_multiplier * r.TotalDeposits
            cap == cfg.deposit_cap * PointScale
        IN  IF cfg.deposit_cap > 0
            THEN /\ r.FromDeposits <= cap
                 /\ r.FromDeposits = (IF uncapped < cap THEN uncapped ELSE cap)
            ELSE r.FromDeposits = uncapped

WitnessC10 ==
    \E k \in 1..Len(results) :
        /\ cfg.deposit_cap > 0
        /\ cfg.deposit_multiplier * results[k].TotalDeposits > cfg.deposit_cap * PointScale
        /\ results[k].FromDeposits = cfg.deposit_cap * PointScale

====
